---- MODULE Spec2Model ----
(***************************************************************************)
(* The progress orchestration of src/src/components/Dashboard.tsx:         *)
(* handleAnalyze (reset, launch of simulateAgentProgress, the fetch and    *)
(* the reconciliation of its outcome), the simulateAgentProgress loop,     *)
(* the thinking-text interval and handleFileSelect.                        *)
(*                                                                         *)
(* JavaScript runs each continuation to completion, so one action is one   *)
(* such continuation; React state updates (all of them absolute or         *)
(* functional) are applied in the order they are queued.  hpc = "reset"    *)
(* is the one point inside a continuation that is kept as a state: the     *)
(* place in handleAnalyze between its reset block and its call of          *)
(* simulateAgentProgress; nothing but that call can follow it.             *)
(*                                                                         *)
(* The blocks handleAnalyze runs once its fetch has settled (the success   *)
(* block, the catch block, the finally block) are kept as lists of their   *)
(* statements in program order; the action of that continuation executes   *)
(* the lists, so the order of the writes inside it can be stated.          *)
(***************************************************************************)
EXTENDS Integers, Sequences, FiniteSets, TLC

\* ---------------------------------------------------------------- bounds
\* simulateAgentProgress calls that may be awaiting a timer at one time.
MaxLoops == 2
\* Ticks of one thinking-text interval before it is replaced or cleared.
MaxThoughtTicks == 1
\* Longest agents list of a success payload.
MaxPayloadAgents == 2

\* ------------------------------------------------------ static stage data
\* useState initial agents: three agents, indices 0..2
AgentCount == 3
AgentIdx == 0 .. (AgentCount - 1)

\* agents[i].id, as the characters String.prototype.includes compares
AgentId(i) ==
    CASE i = 0 -> <<"m", "e", "t", "a">>
      [] i = 1 -> <<"p", "r", "i", "v", "a", "c", "y">>
      [] i = 2 -> <<"v", "i", "s", "i", "o", "n">>

\* agentNames[agents[i].id] in simulateAgentProgress
AgentName(i) ==
    CASE i = 0 -> "Agent Meta"
      [] i = 1 -> "Agent Privacy"
      [] i = 2 -> "Agent Vision"

\* AGENT_THINKING[agents[i].id]
AGENT_THINKING(i) ==
    CASE i = 0 -> << "Extracting EXIF metadata...",
                     "Checking for editing software signatures...",
                     "Analyzing device information...",
                     "Verifying image authenticity markers...",
                     "Scanning for Photoshop/GIMP traces..." >>
      [] i = 1 -> << "Running OCR text extraction...",
                     "Detecting sensitive information patterns...",
                     "Identifying account numbers...",
                     "Applying privacy redaction...",
                     "Preparing sanitized image..." >>
      [] i = 2 -> << "Connecting to Gemini AI...",
                     "Analyzing font consistency...",
                     "Checking text alignment patterns...",
                     "Detecting visual artifacts...",
                     "Evaluating receipt authenticity..." >>

\* the fixed narration markers and the per-agent failure line
DoneMarker == "Analysis Complete"
FailedMarker == "Analysis Failed"
TerminatedLine == "Agent process terminated unexpectedly."

\* ------------------------------------------------------------- strings
UpperCase == << "A", "B", "C", "D", "E", "F", "G", "H", "I", "J", "K", "L", "M",
                "N", "O", "P", "Q", "R", "S", "T", "U", "V", "W", "X", "Y", "Z" >>
LowerCase == << "a", "b", "c", "d", "e", "f", "g", "h", "i", "j", "k", "l", "m",
                "n", "o", "p", "q", "r", "s", "t", "u", "v", "w", "x", "y", "z" >>

\* String.prototype.toLowerCase, character by character
toLowerCase(s) ==
    [k \in 1 .. Len(s) |->
        IF \E u \in 1 .. Len(UpperCase) : UpperCase[u] = s[k]
        THEN LowerCase[CHOOSE u \in 1 .. Len(UpperCase) : UpperCase[u] = s[k]]
        ELSE s[k]]

\* String.prototype.includes
includes(s, sub) ==
    \E k \in 0 .. (Len(s) - Len(sub)) : SubSeq(s, k + 1, k + Len(sub)) = sub

\* ------------------------------------------------------------ the state
VARIABLES
    file,               \* useState file: TRUE when a File is held, FALSE for null
    claimedAmount,      \* useState claimedAmount
    isAnalyzing,        \* useState isAnalyzing (what the Analyze button reads)
    isAnalyzingRef,     \* isAnalyzingRef.current
    result,             \* useState result: <<>> for null, <<analysis>> otherwise
    agents,             \* useState agents, indexed 0..2
    allLogs,            \* useState allLogs
    currentAgentIndex,  \* useState currentAgentIndex
    thoughtIndex,       \* thoughtIndex of the live thinking-text interval
    hpc,                \* where the one handleAnalyze call stands
    loop,               \* the simulateAgentProgress call of the latest run
    orphans,            \* per stage: calls of earlier runs still in its dwell
    outcome,            \* how the latest run ended: "none", "success", "failure"
    requests,           \* calls of fetch(`${API_URL}/scan`) the latest run has made
    mounted             \* the Dashboard component is mounted

vars == << file, claimedAmount, isAnalyzing, isAnalyzingRef, result, agents,
           allLogs, currentAgentIndex, thoughtIndex, hpc, loop, orphans, outcome,
           requests, mounted >>

\* One agent card.  old is bookkeeping that the source does not hold: the
\* card was last written by a simulateAgentProgress call of an earlier run.
Agent(status, logs, thinkingText, old) ==
    [status |-> status, logs |-> logs, thinkingText |-> thinkingText, old |-> old]

\* One line of allLogs.  old is bookkeeping: the line was written by a
\* simulateAgentProgress call of an earlier run.
LogLine(old, kind, text) == [old |-> old, kind |-> kind, text |-> text]

\* `${icon} ${name} initialized...`
InitializedLine(old, i) == LogLine(old, "initialized", AgentName(i))
\* `${icon} ${name} task completed.`
CompletedLine(old, i) == LogLine(old, "completed", AgentName(i))
\* `Error: ${error.message}`
ErrorLine(message) == LogLine(FALSE, "error", message)

\* ------------------------------------------------- outcomes of the fetch
\* Names a payload's agent records may carry.
NameAgentMeta == <<"A", "g", "e", "n", "t", " ", "M", "e", "t", "a">>
NameMetaPrivacy == <<"M", "E", "T", "A", "/", "p", "r", "i", "v", "a", "c", "y">>
PayloadNames == {NameAgentMeta, NameMetaPrivacy}

\* { name, logs? } records of data.agents: a record for meta without logs
\* and a record with logs whose name matches both meta and privacy
BackendAgents ==
    { [name |-> NameAgentMeta, hasLogs |-> FALSE, logs |-> <<>>],
      [name |-> NameMetaPrivacy, hasLogs |-> TRUE, logs |-> <<"backend finding">>] }

RECURSIVE SeqsUpTo(_, _)
SeqsUpTo(S, n) ==
    IF n = 0 THEN {<<>>}
    ELSE LET shorter == SeqsUpTo(S, n - 1)
         IN shorter \cup {Append(q, x) : q \in {t \in shorter : Len(t) = n - 1}, x \in S}

\* the analysis record of a payload, by its risk_score (its other fields
\* travel with it and are read by the rendering only)
Analysis(score) == [risk_score |-> score]

\* data.analysis of the payloads
PayloadAnalyses == {<<Analysis(85)>>, <<Analysis(10)>>}

\* data.logs: <<>> stands for a body without logs when hasLogs is FALSE and
\* for the empty array (which is truthy) when hasLogs is TRUE
PayloadLogs == {<<>>, <<"backend line 1", "backend line 2">>}

\* Parsed success bodies: { analysis, agents?, logs? }
Payloads ==
    [hasAgents : BOOLEAN,
     agents : SeqsUpTo(BackendAgents, MaxPayloadAgents),
     hasLogs : BOOLEAN,
     logs : PayloadLogs,
     analysis : PayloadAnalyses]

\* a body without an agents field carries no list, one without logs no lines
SuccessPayloads ==
    {p \in Payloads : /\ ~p.hasAgents => p.agents = <<>>
                      /\ ~p.hasLogs => p.logs = <<>>}

\* Bodies of an ok response that are JSON but not of the expected structure:
\* {} has no analysis (<<>> stands for undefined), no agents and no logs.
UnexpectedBodies ==
    { [hasAgents |-> FALSE, agents |-> <<>>, hasLogs |-> FALSE, logs |-> <<>>,
       analysis |-> <<>>] }

\* every value const data = await response.json() can take
ParsedBodies == SuccessPayloads \cup UnexpectedBodies

\* A non-success response: its body either parses as JSON (detail is "" when
\* the parsed body has no truthy detail) or does not; text is the raw body.
ErrorResponses ==
    { [status |-> "500", parses |-> TRUE, detail |-> "Scan failed", text |-> "{detail}"],
      [status |-> "500", parses |-> TRUE, detail |-> "", text |-> "{}"],
      [status |-> "502", parses |-> FALSE, detail |-> "", text |-> "Bad Gateway page"],
      [status |-> "503", parses |-> FALSE, detail |-> "", text |-> ""] }

\* `HTTP Error ${response.status}: ${response.statusText}`
GenericMessage(resp) ==
    CASE resp.status = "500" -> "HTTP Error 500: Internal Server Error"
      [] resp.status = "502" -> "HTTP Error 502: Bad Gateway"
      [] resp.status = "503" -> "HTTP Error 503: Service Unavailable"

\* the message thrown for a response that is not ok
HttpErrorMessage(resp) ==
    IF resp.parses
    THEN (IF resp.detail # "" THEN resp.detail ELSE GenericMessage(resp))
    ELSE (IF resp.text # "" THEN resp.text ELSE GenericMessage(resp))

\* error.message for every way the try block throws before the success block
FailureMessages ==
    {HttpErrorMessage(resp) : resp \in ErrorResponses}
        \cup {"Failed to fetch", "Unexpected token < in JSON"}

\* ------------------------------------------------------ state updaters
\* WithLine gone wrong: the spread of prev is forgotten
WithLineAlone(prev, line) == <<line>>

\* [...prev, line]
WithLine(prev, line) == Append(prev, line)

\* prev.map(a => ({ ...a, status: 'pending', logs: [], thinkingText: '' }))
ResetAgents(prev) == [idx \in AgentIdx |-> Agent("pending", <<>>, "", FALSE)]

\* prev.map((a, idx) => idx === i ? { ...a, status: 'running' } : a)
RunningAgents(prev, i, old) ==
    [idx \in AgentIdx |->
        IF idx = i THEN [prev[idx] EXCEPT !.status = "running", !.old = old]
        ELSE prev[idx]]

\* prev.map((a, idx) => idx === i
\*     ? { ...a, status: 'complete', thinkingText: DoneMarker } : a)
CompleteAgents(prev, i, old) ==
    [idx \in AgentIdx |->
        IF idx = i
        THEN [prev[idx] EXCEPT !.status = "complete", !.thinkingText = DoneMarker,
                               !.old = old]
        ELSE prev[idx]]

\* prev.map((a, idx) => idx === currentAgentIndex
\*     ? { ...a, thinkingText: thoughts[thoughtIndex % thoughts.length] } : a)
ThinkingAgents(prev, i, k) ==
    [idx \in AgentIdx |->
        IF idx = i
        THEN [prev[idx] EXCEPT
                !.thinkingText = AGENT_THINKING(i)[(k % Len(AGENT_THINKING(i))) + 1]]
        ELSE prev[idx]]

\* ba => ba.name.toLowerCase().includes(a.id), with a the agent at idx
NameMatches(name, idx) == includes(toLowerCase(name), AgentId(idx))

\* NameMatches over the names payloads carry, evaluated once
NameMatchTable == [name \in PayloadNames |-> [idx \in AgentIdx |-> NameMatches(name, idx)]]

\* find gone wrong: the last matching record is taken, not the first
RECURSIVE findLast(_, _)
findLast(backendAgents, idx) ==
    IF backendAgents = <<>> THEN <<>>
    ELSE LET later == findLast(Tail(backendAgents), idx)
         IN IF later # <<>> THEN later
            ELSE IF NameMatchTable[Head(backendAgents).name][idx]
                 THEN <<Head(backendAgents)>>
                 ELSE <<>>

\* data.agents.find(ba => ba.name.toLowerCase().includes(a.id)): the list
\* is scanned from its head; <<>> stands for undefined
RECURSIVE find(_, _)
find(backendAgents, idx) ==
    IF backendAgents = <<>> THEN <<>>
    ELSE IF NameMatchTable[Head(backendAgents).name][idx]
         THEN <<Head(backendAgents)>>
         ELSE find(Tail(backendAgents), idx)

\* backendAgent.logs || []
LogsOrEmpty(backendAgent) == IF backendAgent.hasLogs THEN backendAgent.logs ELSE <<>>

\* the success updater of agents
MatchAgents(prev, backendAgents) ==
    [idx \in AgentIdx |->
        LET backendAgent == find(backendAgents, idx)
        IN IF backendAgent # <<>>
           THEN [prev[idx] EXCEPT !.status = "complete",
                                  !.logs = LogsOrEmpty(backendAgent[1]),
                                  !.thinkingText = DoneMarker,
                                  !.old = FALSE]
           ELSE prev[idx]]

\* FailAgents gone wrong: an agent that is already complete is left alone
FailAgentsKeepComplete(prev) ==
    [idx \in AgentIdx |->
        IF prev[idx].status = "complete" THEN prev[idx]
        ELSE [prev[idx] EXCEPT !.status = "error",
                               !.thinkingText = FailedMarker,
                               !.logs = Append(prev[idx].logs, TerminatedLine),
                               !.old = FALSE]]

\* FailAgents gone wrong: only the stage that was running is failed
FailAgentsRunningOnly(prev) ==
    [idx \in AgentIdx |->
        IF prev[idx].status # "running" THEN prev[idx]
        ELSE [prev[idx] EXCEPT !.status = "error",
                               !.thinkingText = FailedMarker,
                               !.logs = Append(prev[idx].logs, TerminatedLine),
                               !.old = FALSE]]

\* the failure updater of agents
FailAgents(prev) ==
    [idx \in AgentIdx |->
        [prev[idx] EXCEPT !.status = "error",
                          !.thinkingText = FailedMarker,
                          !.logs = Append(prev[idx].logs, TerminatedLine),
                          !.old = FALSE]]

\* data.logs as lines of allLogs
PayloadLines(logs) == [k \in 1 .. Len(logs) |-> LogLine(FALSE, "payload", logs[k])]

\* if (data.agents) setAgents(...)
SuccessAgents(prev, data) ==
    IF data.hasAgents THEN MatchAgents(prev, data.agents) ELSE prev

\* SuccessLogs gone wrong: the payload's lines are added to the log
SuccessLogsMerged(prev, data) ==
    IF data.hasLogs THEN prev \o PayloadLines(data.logs) ELSE prev

\* if (data.logs) setAllLogs(data.logs)
SuccessLogs(prev, data) ==
    IF data.hasLogs THEN PayloadLines(data.logs) ELSE prev

\* FailureLogs gone wrong: the error is swallowed
FailureLogsSwallowed(prev, message) == prev

\* setAllLogs(prev => [...prev, `Error: ${error.message}`])
FailureLogs(prev, message) == WithLine(prev, ErrorLine(message))

\* The statements of handleAnalyze after its fetch has settled.
StopSimulation == "isAnalyzingRef.current = false"
SetMatchedAgents == "if (data.agents) setAgents(...)"
SetPayloadLogs == "if (data.logs) setAllLogs(data.logs)"
SetResult == "setResult(data.analysis)"
AppendErrorLine == "setAllLogs(prev => [...prev, error line])"
SetFailedAgents == "setAgents(prev => prev.map(... status: 'error' ...))"
ClearIsAnalyzing == "setIsAnalyzing(false)"

\* SuccessBlock gone wrong: the in-progress flag is cleared as soon as the
\* body has arrived
SuccessBlockClearingFlagFirst ==
    << StopSimulation, ClearIsAnalyzing, SetMatchedAgents, SetPayloadLogs, SetResult >>

\* SuccessBlock gone wrong: the analysis record is not stored
SuccessBlockWithoutResult == << StopSimulation, SetMatchedAgents, SetPayloadLogs >>

\* the success block, after const data = await response.json()
SuccessBlock == << StopSimulation, SetMatchedAgents, SetPayloadLogs, SetResult >>
\* CatchBlock gone wrong: the stages are not failed
CatchBlockWithoutAgents == << StopSimulation, AppendErrorLine >>

\* the catch block
CatchBlock == << StopSimulation, AppendErrorLine, SetFailedAgents >>
\* the finally block
FinallyBlock == << ClearIsAnalyzing, StopSimulation >>

\* What the statements of a block read and write: the ref and the values the
\* queued state updates amount to.
Written ==
    [isAnalyzing |-> isAnalyzing, isAnalyzingRef |-> isAnalyzingRef,
     result |-> result, agents |-> agents, allLogs |-> allLogs]

\* One statement; input is the parsed body (success block) or error.message
\* (catch block).
Exec(stmt, w, input) ==
    CASE stmt = StopSimulation -> [w EXCEPT !.isAnalyzingRef = FALSE]
      [] stmt = SetMatchedAgents -> [w EXCEPT !.agents = SuccessAgents(w.agents, input)]
      [] stmt = SetPayloadLogs -> [w EXCEPT !.allLogs = SuccessLogs(w.allLogs, input)]
      [] stmt = SetResult -> [w EXCEPT !.result = input.analysis]
      [] stmt = AppendErrorLine -> [w EXCEPT !.allLogs = FailureLogs(w.allLogs, input)]
      [] stmt = SetFailedAgents -> [w EXCEPT !.agents = FailAgents(w.agents)]
      [] stmt = ClearIsAnalyzing -> [w EXCEPT !.isAnalyzing = FALSE]

\* the statements of a block, one after the other
RECURSIVE RunBlock(_, _, _)
RunBlock(stmts, w, input) ==
    IF stmts = <<>> THEN w
    ELSE RunBlock(Tail(stmts), Exec(Head(stmts), w, input), input)

\* The states a block passes through, as a sequence: the first is the state
\* before the first statement, then the state after each statement.
RECURSIVE Trace(_, _, _)
Trace(stmts, w, input) ==
    IF stmts = <<>> THEN <<w>>
    ELSE <<w>> \o Trace(Tail(stmts), Exec(Head(stmts), w, input), input)

\* what handleAnalyze has written when it returns, its fetch having resolved
\* with an ok response whose body parsed as data
AfterBody(data) == RunBlock(SuccessBlock \o FinallyBlock, Written, data)

\* what handleAnalyze has written when it returns, its try block having
\* thrown an error with this message
AfterThrow(message) == RunBlock(CatchBlock \o FinallyBlock, Written, message)

\* the continuation leaves its writes in the state
Commit(w) ==
    /\ isAnalyzing' = w.isAnalyzing
    /\ isAnalyzingRef' = w.isAnalyzingRef
    /\ result' = w.result
    /\ agents' = w.agents
    /\ allLogs' = w.allLogs

\* setCurrentAgentIndex(next) and the effect that depends on [currentAgentIndex]:
\* a changed value clears the old interval and starts one with thoughtIndex = 0
SetCurrentAgentIndex(next) ==
    /\ currentAgentIndex' = next
    /\ thoughtIndex' = IF next = currentAgentIndex THEN thoughtIndex ELSE 0

\* no handleAnalyze continuation is in the middle of running
BetweenTasks == hpc \in {"idle", "fetching"}

\* simulateAgentProgress calls that are awaiting a timer
OrphanCount == orphans[0] + orphans[1] + orphans[2]
LiveLoops == (IF loop.pc = "dwell" THEN 1 ELSE 0) + OrphanCount

\* ------------------------------------------------------------------ Init
Init ==
    /\ file = FALSE
    /\ claimedAmount = ""
    /\ isAnalyzing = FALSE
    /\ isAnalyzingRef = FALSE
    /\ result = <<>>
    /\ agents = [idx \in AgentIdx |-> Agent("pending", <<>>, "", FALSE)]
    /\ allLogs = <<>>
    /\ currentAgentIndex = -1
    /\ thoughtIndex = 0
    /\ hpc = "idle"
    /\ loop = [pc |-> "none", i |-> 0]
    /\ orphans = [idx \in AgentIdx |-> 0]
    /\ outcome = "none"
    /\ requests = 0
    /\ mounted = TRUE

\* --------------------------------------------------------------- actions
\* onChange of the amount input.  Only handleAnalyze reads claimedAmount, and
\* only to see whether it is empty, so typing an amount stands for every edit.
SetClaimedAmount ==
    /\ mounted
    /\ BetweenTasks
    /\ \E v \in {"5000"} : claimedAmount' = v
    /\ UNCHANGED << file, isAnalyzing, isAnalyzingRef, result, agents, allLogs,
                    currentAgentIndex, thoughtIndex, hpc, loop, orphans, outcome,
                    requests, mounted >>

\* handleFileSelect: the file input, a drop, or a loaded sample receipt
handleFileSelect ==
    /\ mounted
    /\ BetweenTasks
    /\ file' = TRUE
    /\ result' = <<>>
    /\ allLogs' = <<>>
    /\ SetCurrentAgentIndex(-1)
    /\ agents' = ResetAgents(agents)
    /\ UNCHANGED << claimedAmount, isAnalyzing, isAnalyzingRef, hpc, loop, orphans,
                    outcome, requests, mounted >>

\* handleAnalyze up to its call of simulateAgentProgress as it would be without
\* setResult(null): the result of the run before stays on screen.
handleAnalyzeResetKeepingResult ==
    /\ mounted
    /\ hpc = "idle"
    /\ LiveLoops < MaxLoops
    /\ file /\ claimedAmount # "" /\ ~isAnalyzing
    /\ isAnalyzing' = TRUE
    /\ isAnalyzingRef' = TRUE
    /\ allLogs' = <<>>
    /\ agents' = ResetAgents(agents)
    /\ outcome' = "none"
    /\ requests' = 0
    /\ hpc' = "reset"
    /\ orphans' = IF loop.pc = "dwell"
                  THEN [orphans EXCEPT ![loop.i] = @ + 1]
                  ELSE orphans
    /\ loop' = [pc |-> "none", i |-> 0]
    /\ UNCHANGED << file, claimedAmount, currentAgentIndex, thoughtIndex, mounted,
                    result >>

\* handleAnalyze up to its call of simulateAgentProgress.  The button is
\* disabled by !file || !claimedAmount || isAnalyzing, the handler returns
\* on !file || !claimedAmount.  A call of the run before that still awaits
\* its timer is from here on a call of an earlier run.
handleAnalyzeReset ==
    /\ mounted
    /\ hpc = "idle"
    /\ LiveLoops < MaxLoops
    /\ file /\ claimedAmount # "" /\ ~isAnalyzing
    /\ isAnalyzing' = TRUE
    /\ isAnalyzingRef' = TRUE
    /\ result' = <<>>
    /\ allLogs' = <<>>
    /\ agents' = ResetAgents(agents)
    /\ outcome' = "none"
    /\ requests' = 0
    /\ hpc' = "reset"
    /\ orphans' = IF loop.pc = "dwell"
                  THEN [orphans EXCEPT ![loop.i] = @ + 1]
                  ELSE orphans
    /\ loop' = [pc |-> "none", i |-> 0]
    /\ UNCHANGED << file, claimedAmount, currentAgentIndex, thoughtIndex, mounted >>

\* A pass of the for loop of simulateAgentProgress from its head with index i,
\* up to its first await (or past its end), on top of the updates prevAgents
\* and prevLogs that the same continuation has already queued.  The result is
\* where the call stands: <<"dwell", i>> or <<"done", i>>.
EnterStage(i, old, prevAgents, prevLogs, at) ==
    IF i < AgentCount /\ isAnalyzingRef
    THEN /\ SetCurrentAgentIndex(i)
         /\ agents' = RunningAgents(prevAgents, i, old)
         /\ allLogs' = WithLine(prevLogs, InitializedLine(old, i))
         /\ at = [pc |-> "dwell", i |-> i]
    ELSE /\ SetCurrentAgentIndex(-1)
         /\ agents' = prevAgents
         /\ allLogs' = prevLogs
         /\ at = [pc |-> "done", i |-> 0]

\* handleAnalyze from its call of simulateAgentProgress (which runs to its
\* first await) to its own await of fetch.
handleAnalyzeLaunch ==
    /\ hpc = "reset"
    /\ EnterStage(0, FALSE, agents, allLogs, loop')
    /\ requests' = requests + 1
    /\ hpc' = "fetching"
    /\ UNCHANGED << file, claimedAmount, isAnalyzing, isAnalyzingRef, result, orphans,
                    outcome, mounted >>

\* The continuation of a simulateAgentProgress call, in the dwell of stage i,
\* after one setTimeout(r, 100).  elapsed: Date.now() - start has reached
\* waitTime (the dwell is 2000 + Math.random() * 1000 ms, and timers drift, so
\* either may be the case).
DwellPoll(i, old, at) ==
    \E elapsed \in BOOLEAN :
        IF ~isAnalyzingRef
        THEN \* break out of the while and of the for; setCurrentAgentIndex(-1)
             /\ SetCurrentAgentIndex(-1)
             /\ at = [pc |-> "done", i |-> 0]
             /\ UNCHANGED << agents, allLogs >>
        ELSE IF ~elapsed
        THEN \* the while goes round: another setTimeout(r, 100)
             /\ at = [pc |-> "dwell", i |-> i]
             /\ UNCHANGED << agents, allLogs, currentAgentIndex, thoughtIndex >>
        ELSE \* the stage completes and the for loop goes on with i + 1
             EnterStage(i + 1, old,
                        CompleteAgents(agents, i, old),
                        WithLine(allLogs, CompletedLine(old, i)),
                        at)

\* the call of the latest run wakes up
simulateAgentProgress ==
    /\ BetweenTasks
    /\ loop.pc = "dwell"
    /\ DwellPoll(loop.i, FALSE, loop')
    /\ UNCHANGED << file, claimedAmount, isAnalyzing, isAnalyzingRef, result,
                    hpc, orphans, outcome, requests, mounted >>

\* a call of an earlier run wakes up
simulateAgentProgressEarlier ==
    /\ BetweenTasks
    /\ \E i \in AgentIdx :
        /\ orphans[i] > 0
        /\ \E at \in [pc : {"dwell", "done"}, i : AgentIdx] :
            /\ DwellPoll(i, TRUE, at)
            /\ orphans' = IF at.pc = "dwell"
                          THEN [[orphans EXCEPT ![i] = @ - 1] EXCEPT ![at.i] = @ + 1]
                          ELSE [orphans EXCEPT ![i] = @ - 1]
    /\ UNCHANGED << file, claimedAmount, isAnalyzing, isAnalyzingRef, result,
                    hpc, loop, outcome, requests, mounted >>

\* One firing of the setInterval(..., 800) of the thinking-text effect, which
\* lives while 0 <= currentAgentIndex < agents.length.
ThinkingTick ==
    /\ mounted
    /\ BetweenTasks
    /\ currentAgentIndex >= 0 /\ currentAgentIndex < AgentCount
    /\ thoughtIndex < MaxThoughtTicks
    /\ agents' = ThinkingAgents(agents, currentAgentIndex, thoughtIndex)
    /\ thoughtIndex' = thoughtIndex + 1
    /\ UNCHANGED << file, claimedAmount, isAnalyzing, isAnalyzingRef, result, allLogs,
                    currentAgentIndex, hpc, loop, orphans, outcome, requests, mounted >>

\* handleAnalyze after its fetch resolved with an ok response whose body
\* parsed: the success block and the finally block.
ReconcileSuccess ==
    /\ hpc = "fetching"
    /\ \E data \in ParsedBodies : Commit(AfterBody(data))
    /\ hpc' = "idle"
    /\ outcome' = "success"
    /\ UNCHANGED << file, claimedAmount, currentAgentIndex, thoughtIndex, loop, orphans,
                    requests, mounted >>

\* ReconcileFailure gone wrong: the failed request is silently issued again
ReconcileFailureRetrying ==
    /\ hpc = "fetching"
    /\ requests' = requests + 1
    /\ UNCHANGED << file, claimedAmount, isAnalyzing, isAnalyzingRef, result, agents,
                    allLogs, currentAgentIndex, thoughtIndex, hpc, loop, orphans,
                    outcome, mounted >>

\* handleAnalyze after anything in its try block threw (fetch rejected, the
\* response was not ok, the body did not parse): the catch and finally blocks.
ReconcileFailure ==
    /\ hpc = "fetching"
    /\ \E message \in FailureMessages : Commit(AfterThrow(message))
    /\ hpc' = "idle"
    /\ outcome' = "failure"
    /\ UNCHANGED << file, claimedAmount, currentAgentIndex, thoughtIndex, loop, orphans,
                    requests, mounted >>

Next ==
    \/ SetClaimedAmount
    \/ handleFileSelect
    \/ handleAnalyzeReset
    \/ handleAnalyzeLaunch
    \/ simulateAgentProgress
    \/ simulateAgentProgressEarlier
    \/ ThinkingTick
    \/ ReconcileSuccess
    \/ ReconcileFailure

Spec == Init /\ [][Next]_vars

\* The timers simulateAgentProgress awaits fire, and a dwell of two to three
\* seconds elapses: a call that stays able to go on does go on.
TimersFire ==
    /\ WF_vars(simulateAgentProgress)
    /\ WF_vars(simulateAgentProgressEarlier)

\* the Dashboard with its timers firing
SpecLive == Init /\ [][Next]_vars /\ TimersFire

\* The component is unmounted (page.tsx renders it, the user leaves the page).
\* The cleanup of the thinking-text effect clears its interval; nothing
\* touches isAnalyzingRef or the timers simulateAgentProgress awaits, and the
\* pending fetch is not aborted.  From here on the state variables stand for
\* the updates the setter calls still queue; nothing renders them.
Unmount ==
    /\ mounted
    /\ BetweenTasks
    /\ mounted' = FALSE
    /\ UNCHANGED << file, claimedAmount, isAnalyzing, isAnalyzingRef, result, agents,
                    allLogs, currentAgentIndex, thoughtIndex, hpc, loop, orphans,
                    outcome, requests >>

NextTeardown == Next \/ Unmount

\* the Dashboard with its teardown
SpecTeardown == Init /\ [][NextTeardown]_vars

\* ------------------------------------------------- steps, by what they do
\* a step of the Simulator: a simulateAgentProgress call or the interval
SimulatorStep == simulateAgentProgress \/ simulateAgentProgressEarlier \/ ThinkingTick
\* the step in which handleAnalyze reconciles a success payload
SuccessStep == hpc = "fetching" /\ hpc' = "idle" /\ outcome' = "success"
\* the step in which handleAnalyze reconciles a failure
FailureStep == hpc = "fetching" /\ hpc' = "idle" /\ outcome' = "failure"

IsPrefix(s, t) == Len(s) <= Len(t) /\ SubSeq(t, 1, Len(s)) = s
StatusIs(st) == \A idx \in AgentIdx : agents[idx].status = st
Running == {idx \in AgentIdx : agents[idx].status = "running"}

\* ---------------------------------------------------------------- claims

\* C1: in the step that ends a run in failure, whatever the Simulator had
\* reached, the in-progress flag is cleared and all three stages are error.
C1_FailureEndsAllError ==
    [][FailureStep => (~isAnalyzing' /\ \A idx \in AgentIdx : agents'[idx].status = "error")]_vars

\* C1 witness: a failure arrived after the Simulator had completed all three
\* stages, and every stage is error.
C1_Witness ==
    /\ outcome = "failure" /\ ~isAnalyzing
    /\ loop.pc = "done"
    /\ Len(allLogs) = 2 * AgentCount + 1
    /\ StatusIs("error")

\* The payload records (by position) whose lower-cased name contains the id
\* of the stage at idx.
MatchingPositions(data, idx) ==
    IF data.hasAgents
    THEN {k \in 1 .. Len(data.agents) : NameMatchTable[data.agents[k].name][idx]}
    ELSE {}

\* What C2 asks of the card after, given the card before and the payload.
FirstMatchRule(before, after, data, idx) ==
    LET ks == MatchingPositions(data, idx)
    IN IF ks = {}
       THEN after = before
       ELSE LET first == data.agents[CHOOSE k \in ks : \A j \in ks : k <= j]
            IN /\ after.status = "complete"
               /\ after.logs = (IF first.hasLogs THEN first.logs ELSE <<>>)

\* C2: wherever a success payload can arrive, for every payload, the success
\* updater gives each stage the logs of the first record whose lower-cased
\* name contains the stage id and status complete, and leaves a stage without
\* such a record as it is; "META/privacy" matches meta and privacy, "Agent
\* Meta" matches meta only; and the step that reconciles a success leaves
\* every stage untouched or complete with the done marker.
C2_FirstMatchWins ==
    /\ [](hpc = "fetching" =>
            \A data \in SuccessPayloads : \A idx \in AgentIdx :
                FirstMatchRule(agents[idx], SuccessAgents(agents, data)[idx], data, idx))
    /\ [](/\ NameMatchTable[NameMetaPrivacy] = (0 :> TRUE @@ 1 :> TRUE @@ 2 :> FALSE)
          /\ NameMatchTable[NameAgentMeta] = (0 :> TRUE @@ 1 :> FALSE @@ 2 :> FALSE))
    /\ [][SuccessStep =>
            \A idx \in AgentIdx :
                \/ agents'[idx] = agents[idx]
                \/ /\ agents'[idx].status = "complete"
                   /\ agents'[idx].thinkingText = DoneMarker]_vars

\* C2 witness: a payload whose first record ("Agent Meta", no logs) and
\* second record ("META/privacy", with logs) both match meta has been
\* reconciled while stage vision was running: meta took the first record's
\* (empty) logs, privacy the second's, vision kept its status.
C2_Witness ==
    /\ outcome = "success"
    /\ agents[0].status = "complete" /\ agents[0].logs = <<>>
    /\ agents[1].status = "complete" /\ agents[1].logs = <<"backend finding">>
    /\ agents[2].status = "running"

\* The Reconciler has set the cancellation flag and no new run has begun.
Cancelled == outcome # "none" /\ ~isAnalyzingRef

\* C3: once the Reconciler has set the cancellation flag, no Simulator step
\* (a simulateAgentProgress continuation or an interval firing) changes a
\* stage's status or narration text, or the global log.
C3_NoSimulatorWriteAfterCancel ==
    [][(Cancelled /\ SimulatorStep) =>
            /\ \A idx \in AgentIdx :
                 /\ agents'[idx].status = agents[idx].status
                 /\ agents'[idx].thinkingText = agents[idx].thinkingText
            /\ allLogs' = allLogs]_vars

\* What C4 asks of the poll of a call that was cancelled inside a dwell.
ExitsQuietly ==
    /\ LiveLoops' = LiveLoops - 1
    /\ agents' = agents
    /\ allLogs' = allLogs
    /\ currentAgentIndex' = -1

\* C4: a simulateAgentProgress call that was cancelled inside a dwell (the
\* latest run's call with the flag cleared, or a call left by an earlier run)
\* exits at its next poll: no stage completed, no line appended, no later
\* stage started, activeStageIndex reset to none.
C4_CancelledLoopExitsAtNextPoll ==
    [][/\ (loop.pc = "dwell" /\ ~isAnalyzingRef /\ simulateAgentProgress) => ExitsQuietly
       /\ simulateAgentProgressEarlier => ExitsQuietly]_vars

\* C5: while a Simulator loop is live, at most one stage is running.
C5_AtMostOneRunning == LiveLoops > 0 => Cardinality(Running) <= 1

\* C6: at most one simulateAgentProgress loop is live.
C6_OneLiveLoop == LiveLoops <= 1

\* C7: the run handleAnalyze has reset, before anything else runs, has all
\* stages pending with empty stageLogs and narration, an empty global log
\* and activeStageIndex none.
C7_FreshRun ==
    hpc = "reset" =>
        /\ \A idx \in AgentIdx :
             /\ agents[idx].status = "pending"
             /\ agents[idx].logs = <<>>
             /\ agents[idx].thinkingText = ""
        /\ allLogs = <<>>
        /\ currentAgentIndex = -1

\* C8: no global-log line and no stage status was written by a task of an
\* earlier run.
C8_RunsIsolated ==
    /\ \A k \in 1 .. Len(allLogs) : ~allLogs[k].old
    /\ \A idx \in AgentIdx : ~agents[idx].old

\* C9 as claimed: every step of a run (Simulator, Reconciler on success,
\* Reconciler on failure) leaves the previous global log as a prefix of the
\* new one.
C9_AppendOnly ==
    [][(SimulatorStep \/ SuccessStep \/ FailureStep) => IsPrefix(allLogs, allLogs')]_vars

\* C9 amended: every Simulator step and the Reconciler on failure leave the
\* previous global log as a prefix of the new one; the Reconciler on success
\* leaves it unchanged or replaces it by the payload's lines.
C9_AppendOnlyUntilSuccess ==
    [][/\ (SimulatorStep \/ FailureStep) => IsPrefix(allLogs, allLogs')
       /\ SuccessStep =>
            \/ allLogs' = allLogs
            \/ \E logs \in PayloadLogs : allLogs' = PayloadLines(logs)]_vars

\* C9 witness: the Simulator has appended its lines for two stages, in order.
C9_Witness ==
    /\ outcome = "none" /\ loop = [pc |-> "dwell", i |-> 1]
    /\ allLogs = << InitializedLine(FALSE, 0), CompletedLine(FALSE, 0),
                    InitializedLine(FALSE, 1) >>

\* C10: the step that reconciles a failure appends exactly one line, the
\* error line, and no Simulator step appends a line after it.
C10_OneErrorLine ==
    [][/\ FailureStep =>
            /\ Len(allLogs') = Len(allLogs) + 1
            /\ IsPrefix(allLogs, allLogs')
            /\ allLogs'[Len(allLogs')].kind = "error"
       /\ (outcome = "failure" /\ SimulatorStep) => allLogs' = allLogs]_vars

\* C10 witness: a failure arrived in the dwell of the first stage and the
\* loop has since polled and exited; the log is the Simulator's one line and
\* one error line.
C10_Witness ==
    /\ outcome = "failure" /\ loop.pc = "done"
    /\ Len(allLogs) = 2
    /\ allLogs[1] = InitializedLine(FALSE, 0)
    /\ allLogs[2].kind = "error"

\* The positions of a trace at which the in-progress flag goes from set to
\* cleared.
FlagCleared(tr) == {k \in 2 .. Len(tr) : tr[k - 1].isAnalyzing /\ ~tr[k].isAnalyzing}

\* The success reconciliation of data is complete in the block state w.
SuccessReconciled(w, data) ==
    /\ w.result = data.analysis
    /\ w.agents = SuccessAgents(agents, data)
    /\ w.allLogs = SuccessLogs(allLogs, data)

\* The failure reconciliation is complete in the block state w.
FailureReconciled(w) ==
    /\ \A idx \in AgentIdx : w.agents[idx].status = "error"
    /\ Len(w.allLogs) = Len(allLogs) + 1
    /\ w.allLogs[Len(w.allLogs)].kind = "error"

\* C11: wherever an outcome can arrive, for every outcome, the in-progress
\* flag is cleared once in the continuation that reconciles it, and at the
\* statement that clears it the reconciliation is already complete (on
\* success the result is the payload's analysis and stages and log are
\* rewritten, on failure all stages are error and the error line is the last
\* line); and every step in which the flag goes from set to cleared ends a run
\* in one of these two ways.
C11_ReconciledBeforeFlagCleared ==
    /\ [](hpc = "fetching" =>
            /\ \A data \in ParsedBodies :
                 LET tr == Trace(SuccessBlock \o FinallyBlock, Written, data)
                 IN /\ FlagCleared(tr) # {}
                    /\ \A k \in FlagCleared(tr) : SuccessReconciled(tr[k - 1], data)
            /\ \A message \in FailureMessages :
                 LET tr == Trace(CatchBlock \o FinallyBlock, Written, message)
                 IN /\ FlagCleared(tr) # {}
                    /\ \A k \in FlagCleared(tr) : FailureReconciled(tr[k - 1]))
    /\ [][(isAnalyzing /\ ~isAnalyzing') =>
            \/ /\ outcome' = "success"
               /\ result' \in {data.analysis : data \in ParsedBodies}
            \/ /\ outcome' = "failure"
               /\ \A idx \in AgentIdx : agents'[idx].status = "error"
               /\ allLogs' # <<>> /\ allLogs'[Len(allLogs')].kind = "error"]_vars

\* C11 witness: the flag has been cleared by a success whose payload (risk
\* score 10, a record for meta, two log lines) rewrote result, stages and log
\* while the simulation was in its second stage.
C11_Witness ==
    /\ outcome = "success" /\ ~isAnalyzing
    /\ result = <<Analysis(10)>>
    /\ agents[0].status = "complete" /\ agents[1].status = "running"
    /\ allLogs = PayloadLines(<<"backend line 1", "backend line 2">>)

\* C12: the latest run has made at most one analysis request; from its
\* launch on it has made exactly one; while the request is in flight no
\* outcome has been consumed, and once an outcome (success or failure) has
\* been consumed no request is in flight, so a failed run has made one
\* request and issues no other.
C12_OneRequestOneOutcome ==
    /\ requests <= 1
    /\ (hpc = "fetching" \/ outcome # "none") => requests = 1
    /\ hpc = "fetching" => outcome = "none"
    /\ outcome # "none" => hpc = "idle"

\* C12 witness: a run has failed, its simulateAgentProgress call has polled
\* and exited, and the run has made one request.
C12_Witness ==
    /\ outcome = "failure" /\ hpc = "idle"
    /\ loop.pc = "done" /\ OrphanCount = 0
    /\ requests = 1

\* C13: once the Dashboard is torn down, the cancellation flag is set
\* (isAnalyzingRef.current is false) and no simulateAgentProgress call awaits
\* a timer, and no step of the loop or of the narration interval changes
\* stages, the global log or activeStageIndex.
C13_TeardownCancels ==
    /\ [](~mounted => (~isAnalyzingRef /\ LiveLoops = 0))
    /\ [][(~mounted /\ SimulatorStep) =>
            UNCHANGED << agents, allLogs, currentAgentIndex >>]_vars

\* the stages with status error
Errored == {idx \in AgentIdx : agents[idx].status = "error"}

\* C14: in every reachable state either no stage is error or all three are.
C14_ErrorAllOrNothing == Errored = {} \/ Errored = AgentIdx

\* C14 witness: the failure arrived while the second stage was running (the
\* first complete, the third pending); all three are error, and the loop has
\* not yet polled.
C14_Witness ==
    /\ outcome = "failure"
    /\ loop = [pc |-> "dwell", i |-> 1] /\ OrphanCount = 0
    /\ Errored = AgentIdx
    /\ allLogs[Len(allLogs)].kind = "error"

\* the user-interface events the Dashboard accepts while a run is in progress
UserEvent == handleFileSelect \/ SetClaimedAmount

\* C15: while a run is in progress, no user-interface event changes stages,
\* the global log or activeStageIndex.
C15_RunOwnedByEngine ==
    [][(isAnalyzing /\ UserEvent) =>
            UNCHANGED << agents, allLogs, currentAgentIndex >>]_vars

\* C16: wherever a success payload can arrive, for every payload, the
\* continuation that reconciles it leaves result equal to the payload's
\* analysis record (so with its risk_score); and a result, once set, changes
\* only when handleAnalyze starts the next run or a file is selected.
C16_ResultIsPayloadAnalysis ==
    /\ [](hpc = "fetching" =>
            \A data \in SuccessPayloads :
                LET w == RunBlock(SuccessBlock \o FinallyBlock, Written, data)
                IN /\ w.result = data.analysis
                   /\ w.result[1].risk_score = data.analysis[1].risk_score)
    /\ [][SuccessStep => result' \in {data.analysis : data \in ParsedBodies}]_vars
    /\ [][result # <<>> =>
            (result' = result \/ hpc' = "reset" \/ handleFileSelect)]_vars

\* C16 witness: a payload with risk score 85 and one record matching meta and
\* privacy arrived while the first stage was running; two stages are complete
\* with the payload's logs, the third is as the Simulator left it, and the
\* result is still there after the loop has polled and exited.
C16_Witness ==
    /\ outcome = "success" /\ loop.pc = "done"
    /\ result # <<>> /\ result[1].risk_score = 85
    /\ agents[0].status = "complete" /\ agents[0].logs = <<"backend finding">>
    /\ agents[1].status = "complete" /\ agents[1].logs = <<"backend finding">>
    /\ agents[2].status = "pending"

\* Every statement of a trace that changes stages or the global log starts
\* in a block state where the cancellation flag is already set.
WritesAfterStop(tr) ==
    \A k \in 2 .. Len(tr) :
        (tr[k].agents # tr[k - 1].agents \/ tr[k].allLogs # tr[k - 1].allLogs)
            => ~tr[k - 1].isAnalyzingRef

\* The first half of C17: wherever an outcome can arrive, for every outcome,
\* the Reconciler's writes come after its isAnalyzingRef.current = false.
ReconcilerWritesAfterStop ==
    hpc = "fetching" =>
        /\ \A data \in SuccessPayloads :
             WritesAfterStop(Trace(SuccessBlock \o FinallyBlock, Written, data))
        /\ \A message \in FailureMessages :
             WritesAfterStop(Trace(CatchBlock \o FinallyBlock, Written, message))

\* C17: the Reconciler writes stages and the global log only after it has set
\* the cancellation flag, and in the phase it writes in (the flag set, until
\* the next run starts) no Simulator step writes stages or the global log.
C17_OneWriterPerPhase ==
    /\ []ReconcilerWritesAfterStop
    /\ [][(Cancelled /\ SimulatorStep) => UNCHANGED << agents, allLogs >>]_vars

\* the lines the Simulator appends for the first n stages of a run
RECURSIVE SimulatorLines(_)
SimulatorLines(n) ==
    IF n = 0 THEN <<>>
    ELSE SimulatorLines(n - 1)
            \o << InitializedLine(FALSE, n - 1), CompletedLine(FALSE, n - 1) >>

\* C18: while the run's simulation is not cancelled, its loop in the dwell of
\* stage i has every earlier stage complete with the done marker, stage i
\* running, every later stage pending, activeStageIndex i and the global log
\* initialized(0), completed(0), ..., initialized(i); past the last stage all
\* stages are complete with the done marker, activeStageIndex is none and the
\* log is the six lines in order.
C18_StagesInOrder ==
    (hpc = "fetching" /\ isAnalyzingRef) =>
        /\ loop.pc = "dwell" =>
            /\ \A j \in AgentIdx :
                 /\ j < loop.i => /\ agents[j].status = "complete"
                                  /\ agents[j].thinkingText = DoneMarker
                 /\ j = loop.i => agents[j].status = "running"
                 /\ j > loop.i => agents[j].status = "pending"
            /\ currentAgentIndex = loop.i
            /\ allLogs = Append(SimulatorLines(loop.i), InitializedLine(FALSE, loop.i))
        /\ loop.pc = "done" =>
            /\ \A j \in AgentIdx : /\ agents[j].status = "complete"
                                    /\ agents[j].thinkingText = DoneMarker
            /\ currentAgentIndex = -1
            /\ allLogs = SimulatorLines(AgentCount)

\* The message C19 asks for: the body's detail when the body parses and has
\* one; otherwise the raw text when it is not empty; otherwise the generic
\* message.
MessageInClaimedOrder(resp) ==
    IF resp.parses /\ resp.detail # "" THEN resp.detail
    ELSE IF resp.text # "" THEN resp.text
    ELSE GenericMessage(resp)

\* the last line of a log
LastLine(logs) == logs[Len(logs)]

\* C19: wherever a response can arrive, for every non-success response, the
\* error line the catch block appends carries the message chosen in the
\* claimed order.
C19_ErrorMessageOrder ==
    hpc = "fetching" =>
        \A resp \in ErrorResponses :
            LET w == RunBlock(CatchBlock \o FinallyBlock, Written, HttpErrorMessage(resp))
            IN /\ LastLine(w.allLogs).kind = "error"
               /\ LastLine(w.allLogs).text = MessageInClaimedOrder(resp)

\* C20: wherever a success payload can arrive, for every payload, the
\* continuation that reconciles it leaves the global log equal to the
\* payload's logs (none of the lines before is kept) when the payload has
\* logs, the empty array included, and equal to the log as it was when the
\* payload arrived when it has none.
C20_LogReplacedOrKept ==
    hpc = "fetching" =>
        \A data \in SuccessPayloads :
            LET w == RunBlock(SuccessBlock \o FinallyBlock, Written, data)
            IN IF data.hasLogs
               THEN /\ Len(w.allLogs) = Len(data.logs)
                    /\ \A k \in 1 .. Len(data.logs) :
                         /\ w.allLogs[k].kind = "payload"
                         /\ w.allLogs[k].text = data.logs[k]
               ELSE w.allLogs = allLogs

\* C20 witness: a payload without logs arrived in the dwell of the second
\* stage; the log is the three lines the Simulator had built, and the result
\* is set.
C20_Witness ==
    /\ outcome = "success" /\ result # <<>>
    /\ allLogs = Append(SimulatorLines(1), InitializedLine(FALSE, 1))

\* C21: once a run has failed, every simulateAgentProgress call has exited
\* and the narration interval is gone, and as long as nothing has reset the
\* stages, every stage's narration is the failure marker and its stageLogs
\* are what they were (empty since the run's start) plus one failure line.
C21_FailureMarkersStay ==
    (outcome = "failure" /\ hpc = "idle" /\ LiveLoops = 0
        /\ currentAgentIndex = -1 /\ Errored = AgentIdx) =>
        \A idx \in AgentIdx :
            /\ agents[idx].thinkingText = FailedMarker
            /\ agents[idx].logs = <<TerminatedLine>>

\* the Simulator is through: all stages complete, activeStageIndex none, no
\* simulateAgentProgress call left
SimulationOver ==
    /\ StatusIs("complete")
    /\ currentAgentIndex = -1
    /\ LiveLoops = 0

\* C22: if the request never resolves (handleAnalyze stays at its await of
\* fetch), then from some point on all three stages are complete,
\* activeStageIndex is none, the in-progress flag is set, the cancellation
\* flag is unset and the result is empty; and once the Simulator is through
\* with the request pending, no step changes stages, log, activeStageIndex,
\* the flags or the result.
C22_StalledRequest ==
    /\ (<>[](hpc = "fetching")) =>
            <>[](SimulationOver /\ isAnalyzing /\ isAnalyzingRef /\ result = <<>>)
    /\ [][(hpc = "fetching" /\ hpc' = "fetching" /\ SimulationOver) =>
            UNCHANGED << agents, allLogs, currentAgentIndex, isAnalyzing,
                         isAnalyzingRef, result >>]_vars

\* C23: wherever an outcome can arrive, every outcome leaves the in-progress
\* flag cleared, and every error - a transport failure, a non-success status
\* with or without a detail, a body that is not JSON, a JSON body that is not
\* of the expected structure - leaves all stages error and one more line, the
\* error line, in the global log.
C23_EveryErrorKindFails ==
    hpc = "fetching" =>
        /\ \A data \in ParsedBodies : ~AfterBody(data).isAnalyzing
        /\ \A message \in FailureMessages :
             ~AfterThrow(message).isAnalyzing /\ FailureReconciled(AfterThrow(message))
        /\ \A body \in UnexpectedBodies :
             ~AfterBody(body).isAnalyzing /\ FailureReconciled(AfterBody(body))

\* the stages that are complete with the done marker as narration
DoneStages(ags) ==
    {idx \in AgentIdx : ags[idx].status = "complete" /\ ags[idx].thinkingText = DoneMarker}

\* C24: after a successful reconciliation, until handleAnalyze starts the
\* next run or a file is selected, a stage that is complete with the done
\* marker stays complete with the done marker.
C24_DoneMarkerStays ==
    [][(outcome = "success" /\ outcome' = "success" /\ ~handleFileSelect) =>
            DoneStages(agents) \subseteq DoneStages(agents')]_vars

\* C25 as claimed: when no run is in progress and every simulateAgentProgress
\* call has exited, no stage is running.
C25_NoRunningAfterRun ==
    (hpc = "idle" /\ LiveLoops = 0) => Running = {}

\* C25 amended: when no run is in progress and every simulateAgentProgress
\* call has exited, a stage is running only if the last run ended on the
\* success path (the success updater leaves a stage without a matching record
\* as the Simulator left it).
C25_RunningOnlyAfterSuccess ==
    (hpc = "idle" /\ LiveLoops = 0 /\ Running # {}) => outcome = "success"

\* C25 witness: a payload matching meta and privacy arrived while vision was
\* running; the loop has polled and exited, and vision is still running.
C25_Witness ==
    /\ outcome = "success" /\ hpc = "idle" /\ LiveLoops = 0 /\ loop.pc = "done"
    /\ agents[0].status = "complete" /\ agents[1].status = "complete"
    /\ Running = {2}

\* C26: in a step that is neither the start of a run nor a file selection, a
\* stage that is complete does not become running or pending, and a stage
\* that is error keeps status error.
C26_StatusNeverBackwards ==
    [][(hpc' # "reset" /\ ~handleFileSelect) =>
            \A idx \in AgentIdx :
                /\ agents[idx].status = "complete" =>
                        agents'[idx].status \in {"complete", "error"}
                /\ agents[idx].status = "error" => agents'[idx].status = "error"]_vars

\* C27: in every reachable state the result is non-empty only if no run is in
\* progress and no stage has status error; and a step that changes the result
\* either empties it or is the success path of the reconciler.
C27_ResultOnlyAfterSuccess ==
    /\ [](result # <<>> => (~isAnalyzing /\ hpc = "idle" /\ Errored = {}))
    /\ [][result' # result => (result' = <<>> \/ SuccessStep)]_vars

\* C27 witness: a run has succeeded; its result is shown, no run is in progress
\* and the matched stages are complete.
C27_Witness ==
    /\ outcome = "success" /\ hpc = "idle" /\ ~isAnalyzing
    /\ result = <<Analysis(85)>>
    /\ StatusIs("complete")

====
